---- MODULE Spec2Model ----
(***************************************************************************)
(* Model of the Malaysian income tax calculator component (React).         *)
(*                                                                         *)
(* Three variants of the component exist in the sources:                   *)
(*   "fixed"  src/unnamed/part_000 lines 1-470: EPF/SOCSO typed as amounts,*)
(*            tax by fixed-amount lookup (taxRanges + taxBrackets);        *)
(*   "toggle" src/src/App.tsx: EPF/SOCSO as check boxes, tax by a loop     *)
(*            over the brackets, rebates;                                  *)
(*   "basic"  src/unnamed/part_000 lines 471-763: as "toggle" but with a   *)
(*            shorter relief list and no rebates.                          *)
(*                                                                         *)
(* Numbers.  JavaScript numbers are modelled as exact fixed-point values:  *)
(*   money (income, deductions, rebates)  in tenths of a ringgit,          *)
(*   rates                                in half percents (24.5% = 49),   *)
(*   tax                                  in 1/2000 of a ringgit,          *)
(* so that amount/10 * (rate/2)/100 = amount*rate/2000 is a whole number   *)
(* of tax units.  Texts are sequences of one-character strings.            *)
(***************************************************************************)
EXTENDS Integers, Sequences, FiniteSets, TLC

VARIABLES variant, pc,
          annualIncome, epfAmount, socsoAmount, epf, socso,
          deductions, rebates,
          totalDeductions, taxableIncome, taxAmount, effectiveRate,
          edits, incA, incB, taxA, taxB, loopA, loopB, walkA, amountsA

vars == <<variant, pc, annualIncome, epfAmount, socsoAmount, epf, socso,
          deductions, rebates,
          totalDeductions, taxableIncome, taxAmount, effectiveRate,
          edits, incA, incB, taxA, taxB, loopA, loopB, walkA, amountsA>>

\* the variables of the tax sweep (the pure-function specification SpecTax)
pure == <<incA, incB, taxA, taxB, loopA, loopB, walkA, amountsA>>

inputs == <<annualIncome, epfAmount, socsoAmount, epf, socso, deductions, rebates>>
results == <<totalDeductions, taxableIncome, taxAmount, effectiveRate>>

-----------------------------------------------------------------------------
(* Units *)

\* ringgit -> money units (tenths)
Money(n) == n * 10
\* money units -> tax units
MoneyToTax(m) == m * 200
\* ringgit -> tax units
Ringgit(n) == n * 2000
\* percent -> rate units (half percents)
Pct(r) == r * 2

\* "max: null" / "next: null" of the bracket tables
NULL == 0 - 1

Min(x, y) == IF x <= y THEN x ELSE y
Max(x, y) == IF x >= y THEN x ELSE y

-----------------------------------------------------------------------------
(* Static tables *)

\* mutant: the fixed amount of the range from 400001 is mistyped
taxRangesMistyped == <<
    [start |-> 0,       next |-> 5000,    fixedAmount |-> 0],
    [start |-> 5001,    next |-> 20000,   fixedAmount |-> 0],
    [start |-> 20001,   next |-> 35000,   fixedAmount |-> 150],
    [start |-> 35001,   next |-> 50000,   fixedAmount |-> 600],
    [start |-> 50001,   next |-> 70000,   fixedAmount |-> 1500],
    [start |-> 70001,   next |-> 100000,  fixedAmount |-> 3700],
    [start |-> 100001,  next |-> 400000,  fixedAmount |-> 9400],
    [start |-> 400001,  next |-> 600000,  fixedAmount |-> 84000],
    [start |-> 600001,  next |-> 2000000, fixedAmount |-> 136400],
    [start |-> 2000001, next |-> NULL,    fixedAmount |-> 528400] >>

\* part_000, fixed-amount variant
taxBrackets == <<
    [min |-> 0,       max |-> 5000,    rate |-> Pct(0)],
    [min |-> 5001,    max |-> 20000,   rate |-> Pct(1)],
    [min |-> 20001,   max |-> 35000,   rate |-> Pct(3)],
    [min |-> 35001,   max |-> 50000,   rate |-> Pct(6)],
    [min |-> 50001,   max |-> 70000,   rate |-> Pct(11)],
    [min |-> 70001,   max |-> 100000,  rate |-> Pct(19)],
    [min |-> 100001,  max |-> 400000,  rate |-> Pct(25)],
    [min |-> 400001,  max |-> 600000,  rate |-> Pct(26)],
    [min |-> 600001,  max |-> 2000000, rate |-> Pct(28)],
    [min |-> 2000001, max |-> NULL,    rate |-> Pct(30)] >>

taxRanges == <<
    [start |-> 0,       next |-> 5000,    fixedAmount |-> 0],
    [start |-> 5001,    next |-> 20000,   fixedAmount |-> 0],
    [start |-> 20001,   next |-> 35000,   fixedAmount |-> 150],
    [start |-> 35001,   next |-> 50000,   fixedAmount |-> 600],
    [start |-> 50001,   next |-> 70000,   fixedAmount |-> 1500],
    [start |-> 70001,   next |-> 100000,  fixedAmount |-> 3700],
    [start |-> 100001,  next |-> 400000,  fixedAmount |-> 9400],
    [start |-> 400001,  next |-> 600000,  fixedAmount |-> 84400],
    [start |-> 600001,  next |-> 2000000, fixedAmount |-> 136400],
    [start |-> 2000001, next |-> NULL,    fixedAmount |-> 528400] >>

\* App.tsx (and part_000 lines 497-509), loop variant; 24.5% is 49 half percents
taxBracketsLoop == <<
    [min |-> 0,       max |-> 5000,    rate |-> Pct(0)],
    [min |-> 5001,    max |-> 20000,   rate |-> Pct(1)],
    [min |-> 20001,   max |-> 35000,   rate |-> Pct(3)],
    [min |-> 35001,   max |-> 50000,   rate |-> Pct(8)],
    [min |-> 50001,   max |-> 70000,   rate |-> Pct(13)],
    [min |-> 70001,   max |-> 100000,  rate |-> Pct(21)],
    [min |-> 100001,  max |-> 250000,  rate |-> Pct(24)],
    [min |-> 250001,  max |-> 400000,  rate |-> 49],
    [min |-> 400001,  max |-> 600000,  rate |-> Pct(25)],
    [min |-> 600001,  max |-> 1000000, rate |-> Pct(26)],
    [min |-> 1000001, max |-> NULL,    rate |-> Pct(28)] >>

-----------------------------------------------------------------------------
(* calculateTax *)

\* Array.prototype.find: the first of the indices whose element satisfies
\* the predicate, 0 if there is none
FirstOf(idxs) ==
    IF idxs = {} THEN 0 ELSE CHOOSE i \in idxs : \A j \in idxs : i <= j

\* mutant: the upper bound of a range is excluded
InRangeStrict(income, r) ==
    income >= Money(r.start) /\ (r.next = NULL \/ income < Money(r.next))

InRange(income, r) ==
    income >= Money(r.start) /\ (r.next = NULL \/ income <= Money(r.next))

InBracket(income, b) ==
    income >= Money(b.min) /\ (b.max = NULL \/ income <= Money(b.max))

\* taxRanges.find(...), part_000:110-112: index of the range found, 0 if none
rangeIndexOf(income) ==
    FirstOf({i \in 1..Len(taxRanges) : InRange(income, taxRanges[i])})

\* mutant: the bracket is searched by its lower bound only
bracketIndexByMin(income) ==
    FirstOf({i \in 1..Len(taxBrackets) : income >= Money(taxBrackets[i].min)})

\* taxBrackets.find(...), part_000:117-119: index of the bracket found, 0 if none
bracketIndexOf(income) ==
    FirstOf({i \in 1..Len(taxBrackets) : InBracket(income, taxBrackets[i])})

\* mutant: the fixed amount of the range is left out
calculateTaxNoFixedAmount(income) ==
    IF income <= 0 THEN 0
    ELSE LET ri == rangeIndexOf(income)
             bi == bracketIndexOf(income)
         IN  IF ri = 0 THEN 0
             ELSE IF bi = 0 THEN 0
             ELSE IF income <= Money(5000) THEN 0
             ELSE (income - Money(taxRanges[ri].start)) * taxBrackets[bi].rate

\* mutant: the excess is measured from the upper bound of the bracket below
calculateTaxFromPrev(income) ==
    IF income <= 0 THEN 0
    ELSE LET ri == rangeIndexOf(income)
             bi == bracketIndexOf(income)
         IN  IF ri = 0 THEN 0
             ELSE IF bi = 0 THEN 0
             ELSE IF income <= Money(5000) THEN 0
             ELSE LET excessAmount == income - Money(taxRanges[ri].start - 1)
                      taxOnExcess  == excessAmount * taxBrackets[bi].rate
                  IN  Ringgit(taxRanges[ri].fixedAmount) + taxOnExcess

\* part_000:106-131.  income in money units, result in tax units.
calculateTax(income) ==
    IF income <= 0 THEN 0
    ELSE LET ri == rangeIndexOf(income)
             bi == bracketIndexOf(income)
         IN  IF ri = 0 THEN 0
             ELSE IF bi = 0 THEN 0
             ELSE IF income <= Money(5000) THEN 0
             ELSE LET excessAmount == income - Money(taxRanges[ri].start)
                      taxOnExcess  == excessAmount * taxBrackets[bi].rate
                  IN  Ringgit(taxRanges[ri].fixedAmount) + taxOnExcess

\* How a call of calculateTax ends: each of its paths is a return statement
\* (part_000:107, 114, 121, 124, 130), none throws.
calculateTaxOutcome(income) == [kind |-> "return", value |-> calculateTax(income)]

\* mutant: no break, and every bounded bracket is charged in full
LoopStepFullBracket(acc, bracket) ==
    LET taxableAmount ==
            IF bracket.max # NULL /\ bracket.max # 0
            THEN Money(bracket.max - bracket.min + 1)
            ELSE acc.remainingIncome
    IN  [totalTax        |-> acc.totalTax + taxableAmount * bracket.rate,
         remainingIncome |-> acc.remainingIncome - taxableAmount]

\* mutant: the width is taken of every bracket, null counting as 0 for the
\* bound of the last one
LoopStepNoNullTest(acc, bracket) ==
    IF acc.remainingIncome <= 0 THEN acc
    ELSE LET max == IF bracket.max = NULL THEN 0 ELSE bracket.max
             taxableAmount == Min(acc.remainingIncome, Money(max - bracket.min + 1))
         IN  [totalTax        |-> acc.totalTax + taxableAmount * bracket.rate,
              remainingIncome |-> acc.remainingIncome - taxableAmount]

\* One iteration of the for loop of App.tsx:91-100 on the accumulator
\* [totalTax, remainingIncome]
LoopStep(acc, bracket) ==
    IF acc.remainingIncome <= 0 THEN acc
    ELSE LET taxableAmount ==
                 IF bracket.max # NULL /\ bracket.max # 0
                 THEN Min(acc.remainingIncome, Money(bracket.max - bracket.min + 1))
                 ELSE acc.remainingIncome
         IN  [totalTax        |-> acc.totalTax + taxableAmount * bracket.rate,
              remainingIncome |-> acc.remainingIncome - taxableAmount]

RECURSIVE LoopFrom(_, _, _)
LoopFrom(acc, table, i) ==
    IF i > Len(table) THEN acc
    ELSE LoopFrom(LoopStep(acc, table[i]), table, i + 1)

\* remainingIncome after every iteration of the loop, in table order (the
\* value at the break for the brackets after it)
RECURSIVE LoopRemaining(_, _, _)
LoopRemaining(acc, table, i) ==
    IF i > Len(table) THEN <<>>
    ELSE LET next == LoopStep(acc, table[i])
         IN  <<next.remainingIncome>> \o LoopRemaining(next, table, i + 1)

remainingIncomesOf(income) ==
    LoopRemaining([totalTax |-> 0, remainingIncome |-> income], taxBracketsLoop, 1)

\* the loop of App.tsx:87-103 run on a given bracket table
calculateTaxLoopOn(table, income) ==
    LoopFrom([totalTax |-> 0, remainingIncome |-> income], table, 1).totalTax

\* taxableAmount of every iteration of the loop, in table order (0 for the
\* brackets after the break)
RECURSIVE LoopAmounts(_, _, _)
LoopAmounts(acc, table, i) ==
    IF i > Len(table) THEN <<>>
    ELSE LET next == LoopStep(acc, table[i])
         IN  <<acc.remainingIncome - next.remainingIncome>> \o LoopAmounts(next, table, i + 1)

taxableAmountsOf(income) ==
    LoopAmounts([totalTax |-> 0, remainingIncome |-> income], taxBracketsLoop, 1)

\* App.tsx:87-103.  income in money units, result in tax units.
calculateTaxLoop(income) ==
    LoopFrom([totalTax |-> 0, remainingIncome |-> income], taxBracketsLoop, 1).totalTax

-----------------------------------------------------------------------------
(* Texts: sequences of one-character strings *)

DigitChars == <<"0", "1", "2", "3", "4", "5", "6", "7", "8", "9">>

IsDigit(c) == \E i \in 1..10 : DigitChars[i] = c
DigitVal(c) == (CHOOSE i \in 1..10 : DigitChars[i] = c) - 1

\* decimal digits of a natural number (how the input pools are written)
RECURSIVE Str(_)
Str(n) == IF n < 10 THEN <<DigitChars[n + 1]>>
          ELSE Append(Str(n \div 10), DigitChars[(n % 10) + 1])

\* value.replace(/,/g, '')
StripCommas(s) == SelectSeq(s, LAMBDA c : c # ",")

\* length of the longest prefix of s made of digits
RECURSIVE DigitPrefixLen(_)
DigitPrefixLen(s) ==
    IF s = <<>> \/ ~IsDigit(Head(s)) THEN 0 ELSE 1 + DigitPrefixLen(Tail(s))

\* value of a sequence of digits (0 for the empty sequence)
RECURSIVE DigitsVal(_)
DigitsVal(d) ==
    IF d = <<>> THEN 0
    ELSE DigitsVal(SubSeq(d, 1, Len(d) - 1)) * 10 + DigitVal(d[Len(d)])

\* parseFloat: optional sign, digits, optional "." and digits; parsing stops
\* at the first character that fits no more; NaN when no digit was read.
\* The value is in money units (tenths): the first decimal is kept, the
\* input pools hold no text with a second non-zero decimal.
parseFloat(s) ==
    LET signed   == s # <<>> /\ Head(s) \in {"-", "+"}
        negative == s # <<>> /\ Head(s) = "-"
        body     == IF signed THEN Tail(s) ELSE s
        n        == DigitPrefixLen(body)
        intPart  == SubSeq(body, 1, n)
        rest     == SubSeq(body, n + 1, Len(body))
        hasPoint == rest # <<>> /\ Head(rest) = "."
        afterPt  == IF hasPoint THEN Tail(rest) ELSE <<>>
        m        == DigitPrefixLen(afterPt)
        tenth    == IF m > 0 THEN DigitVal(afterPt[1]) ELSE 0
        mag      == DigitsVal(intPart) * 10 + tenth
    IN  IF n = 0 /\ m = 0 THEN [nan |-> TRUE, val |-> 0]
        ELSE [nan |-> FALSE, val |-> IF negative THEN 0 - mag ELSE mag]

\* x || 0 for a number x: NaN and 0 give 0
OrZero(x) == IF x.nan THEN 0 ELSE x.val

\* parseFloat(value.replace(/,/g, '')) || 0
parseAmount(value) == OrZero(parseFloat(StripCommas(value)))

\* integerPart.replace(/\B(?=(\d{3})+(?!\d))/g, ','): a comma before every
\* group of three digits counted from the right
RECURSIVE AddCommas(_)
AddCommas(d) ==
    IF Len(d) <= 3 THEN d
    ELSE AddCommas(SubSeq(d, 1, Len(d) - 3)) \o <<",">> \o SubSeq(d, Len(d) - 2, Len(d))

\* index of the first "." of s at or after position i, Len(s)+1 if none
RECURSIVE PointFrom(_, _)
PointFrom(s, i) ==
    IF i > Len(s) THEN Len(s) + 1
    ELSE IF s[i] = "." THEN i ELSE PointFrom(s, i + 1)

\* part_000:133-145 (App.tsx:105-117)
formatNumber(value) ==
    LET numericValue == SelectSeq(value, LAMBDA c : IsDigit(c) \/ c = ".")
        p1 == PointFrom(numericValue, 1)
        p2 == PointFrom(numericValue, p1 + 1)
        integerPart == SubSeq(numericValue, 1, p1 - 1)
        decimalPart == SubSeq(numericValue, p1 + 1, p2 - 1)
        formattedInteger == AddCommas(integerPart)
    IN  IF decimalPart # <<>> THEN formattedInteger \o <<".">> \o decimalPart
        ELSE formattedInteger

-----------------------------------------------------------------------------
(* Relief catalogue *)

Ded(i, m, d) == [id |-> i, maxAmount |-> m, defaultAmount |-> d]

\* part_000:68-89 and App.tsx:48-69 (defaultAmount 0: the field is absent)
availableDeductions == <<
    Ded("personal", 9000, 9000),
    Ded("medical", 8000, 0),
    Ded("disabled_support", 6000, 0),
    Ded("disabled_individual", 6000, 0),
    Ded("education", 7000, 0),
    Ded("medical_serious", 10000, 0),
    Ded("lifestyle", 2500, 0),
    Ded("lifestyle_additional", 500, 0),
    Ded("breastfeeding", 1000, 0),
    Ded("childcare", 3000, 0),
    Ded("sspn", 8000, 0),
    Ded("alimony", 4000, 0),
    Ded("spouse", 5000, 0),
    Ded("child", 2000, 0),
    Ded("life_insurance", 7000, 0),
    Ded("deferred_annuity", 3000, 0),
    Ded("education_insurance", 3000, 0),
    Ded("socso", 350, 0),
    Ded("accommodation", 1000, 0),
    Ded("ev", 2500, 0) >>

\* part_000:511-521
availableDeductionsBasic == <<
    Ded("personal", 9000, 9000),
    Ded("medical", 8000, 0),
    Ded("lifestyle", 2500, 0),
    Ded("education", 7000, 0),
    Ded("housing", 10000, 0),
    Ded("insurance", 3000, 0),
    Ded("parents", 3000, 0),
    Ded("equipment", 2500, 0),
    Ded("domestic", 1000, 0) >>

Catalogue(v) == IF v = "basic" THEN availableDeductionsBasic ELSE availableDeductions

\* availableDeductions.find(d => d.id === id): index, 0 when not found
FindDeduction(v, id) ==
    FirstOf({i \in 1..Len(Catalogue(v)) : Catalogue(v)[i].id = id})

\* mutant: the mount effect sets no default entry
defaultDeductionsNone(v) == <<>>

\* the first mount effect: an entry for every definition with a truthy defaultAmount
defaultDeductions(v) ==
    LET cat  == Catalogue(v)
        idxs == {i \in 1..Len(cat) : cat[i].defaultAmount # 0}
    IN  [id \in {cat[i].id : i \in idxs} |->
            Money(cat[CHOOSE i \in idxs : cat[i].id = id].defaultAmount)]

\* useState initial value of rebates
initialRebates == [id \in {"individual", "spouse", "zakat"} |-> 0]

-----------------------------------------------------------------------------
(* Summary recomputation *)

\* Object.values(rec).reduce((sum, value) => sum + value, 0)
RECURSIVE SumOver(_, _)
SumOver(rec, keys) ==
    IF keys = {} THEN 0
    ELSE LET k == CHOOSE x \in keys : TRUE
         IN  rec[k] + SumOver(rec, keys \ {k})

SumValues(rec) == SumOver(rec, DOMAIN rec)

\* effectiveRate is the exact quotient num/den, in percent
Rate(n, d) == [num |-> n, den |-> d]
ZeroRate == Rate(0, 1)

calculateTaxOf(v, income) ==
    IF v = "fixed" THEN calculateTax(income) ELSE calculateTaxLoop(income)

\* EPF: part_000:183 (typed amount), App.tsx:156 (11% of income when checked;
\* the income pools of these variants hold multiples of RM 100, so the
\* division is exact)
epfDeductionOf(v, income, epfText, epfFlag) ==
    IF v = "fixed" THEN parseAmount(epfText)
    ELSE IF epfFlag THEN (income * 11) \div 100 ELSE 0

\* mutant: a monthly income of exactly 5000 falls in the upper tier
calculateSocsoStrict(v, income, socsoText, socsoFlag) ==
    IF v = "fixed" THEN parseAmount(socsoText)
    ELSE IF ~socsoFlag THEN 0
    ELSE IF income < Money(5000) * 12 THEN (income * 5) \div 1000
    ELSE (income * 6) \div 1000

\* calculateSocso: part_000:101-104 (typed amount), App.tsx:81-85 (0.5% of
\* the annual income up to a monthly income of 5000, 0.6% above)
calculateSocso(v, income, socsoText, socsoFlag) ==
    IF v = "fixed" THEN parseAmount(socsoText)
    ELSE IF ~socsoFlag THEN 0
    ELSE IF income <= Money(5000) * 12 THEN (income * 5) \div 1000
    ELSE (income * 6) \div 1000

\* mutant: the rebates are subtracted without the floor at 0
finalTaxNoFloor(v, calculatedTax, rebs) ==
    IF v = "basic" THEN calculatedTax
    ELSE calculatedTax - MoneyToTax(SumValues(rebs))

\* mutant: the rebates are added to the tax
finalTaxAddsRebates(v, calculatedTax, rebs) ==
    IF v = "basic" THEN calculatedTax
    ELSE Max(0, calculatedTax + MoneyToTax(SumValues(rebs)))

\* finalTax: part_000:193-195, App.tsx:166-168; part_000:606-607 has no rebates
finalTaxOf(v, calculatedTax, rebs) ==
    IF v = "basic" THEN calculatedTax
    ELSE Max(0, calculatedTax - MoneyToTax(SumValues(rebs)))

\* mutant: the taxable income is not floored at 0
computeSummaryNoFloor(v, incomeText, epfText, socsoText, epfFlag, socsoFlag, deds, rebs) ==
    LET income == parseAmount(incomeText)
        epfDeduction == epfDeductionOf(v, income, epfText, epfFlag)
        socsoDeduction == calculateSocso(v, income, socsoText, socsoFlag)
        reliefDeductions == SumValues(deds)
        totalDeductionsAmount == epfDeduction + socsoDeduction + reliefDeductions
        calculatedTaxableIncome == income - totalDeductionsAmount
        calculatedTax == calculateTaxOf(v, calculatedTaxableIncome)
        finalTax == finalTaxOf(v, calculatedTax, rebs)
    IN  [totalDeductions |-> totalDeductionsAmount,
         taxableIncome   |-> calculatedTaxableIncome,
         taxAmount       |-> finalTax,
         effectiveRate   |-> IF income > 0 THEN Rate(finalTax, income * 2) ELSE ZeroRate]

\* the summary effect: part_000:180-199, App.tsx:152-172, part_000:592-609
computeSummary(v, incomeText, epfText, socsoText, epfFlag, socsoFlag, deds, rebs) ==
    LET income == parseAmount(incomeText)
        epfDeduction == epfDeductionOf(v, income, epfText, epfFlag)
        socsoDeduction == calculateSocso(v, income, socsoText, socsoFlag)
        reliefDeductions == SumValues(deds)
        totalDeductionsAmount == epfDeduction + socsoDeduction + reliefDeductions
        calculatedTaxableIncome == Max(0, income - totalDeductionsAmount)
        calculatedTax == calculateTaxOf(v, calculatedTaxableIncome)
        finalTax == finalTaxOf(v, calculatedTax, rebs)
    IN  [totalDeductions |-> totalDeductionsAmount,
         taxableIncome   |-> calculatedTaxableIncome,
         taxAmount       |-> finalTax,
         effectiveRate   |-> IF income > 0 THEN Rate(finalTax, income * 2) ELSE ZeroRate]

Summary == computeSummary(variant, annualIncome, epfAmount, socsoAmount, epf, socso,
                          deductions, rebates)

SetResults(r) ==
    /\ totalDeductions' = r.totalDeductions
    /\ taxableIncome' = r.taxableIncome
    /\ taxAmount' = r.taxAmount
    /\ effectiveRate' = r.effectiveRate

-----------------------------------------------------------------------------
(* Bounds and input pools *)

\* number of edits explored in one session
MaxEdits == 3
\* the tax sweep covers, around every bracket bound, this many tenths of a
\* ringgit below the bound and above the next whole ringgit
SweepRadius == 2

Variants == {"fixed", "toggle", "basic"}

Neg(t) == <<"-">> \o t

\* texts typed into the income field
IncomeTexts(v) ==
    {<<>>, Neg(Str(5000)), Str(100000), <<"R", "M">> \o Str(2500000)}
    \cup (IF v = "fixed" THEN {Str(29000) \o <<".", "5">>}
          ELSE {Str(60000), Str(60050)})

\* texts typed into the EPF and SOCSO amount fields (fixed variant)
ContributionTexts == {<<>>, Str(11000), Neg(Str(300))}

\* ids and texts handed to handleDeductionChange
DeductionIds == {"personal", "lifestyle", "nosuch"}
DeductionTexts == {<<>>, Str(15000), Neg(Str(500)), <<"1", ",", "5", "0", "0">>, <<"a", "b">>}

\* ids and texts handed to handleRebateChange
RebateIds == {"individual", "spouse", "zakat"}
RebateTexts == {<<>>, Str(400), Neg(Str(400)), Str(20000)}

-----------------------------------------------------------------------------
(* The component *)

\* useState initial values; the mount effects have not run yet
AppInit ==
    /\ pc = "mount"
    /\ annualIncome = <<>>
    /\ epfAmount = <<>>
    /\ socsoAmount = <<>>
    /\ epf = TRUE
    /\ socso = TRUE
    /\ deductions = <<>>
    /\ rebates = initialRebates
    /\ totalDeductions = 0
    /\ taxableIncome = 0
    /\ taxAmount = 0
    /\ effectiveRate = ZeroRate
    /\ edits = 0

Init ==
    /\ variant \in Variants
    /\ AppInit
    /\ incA = 0
    /\ incB = 0
    /\ taxA = 0
    /\ taxB = 0
    /\ loopA = 0
    /\ loopB = 0
    /\ walkA = 0
    /\ amountsA = <<>>

\* First pass of the effects after mount: the default deductions are set
\* (part_000:91-99) and the summary effect runs on the values of the first
\* render, in which deductions is still {} (part_000:180-199).
Mount ==
    /\ pc = "mount"
    /\ deductions' = defaultDeductions(variant)
    /\ SetResults(Summary)
    /\ pc' = "dirty"
    /\ UNCHANGED <<variant, annualIncome, epfAmount, socsoAmount, epf, socso,
                   rebates, edits, pure>>

\* The summary effect, run by React after a render in which one of its
\* dependencies changed and before the next event is handled.
RecomputeSummary ==
    /\ pc = "dirty"
    /\ SetResults(Summary)
    /\ pc' = "idle"
    /\ UNCHANGED <<variant, inputs, edits, pure>>

\* mutant: the edited value is missing from the dependencies of the summary
\* effect, which then does not run
EditedNoEffect == pc' = "idle" /\ edits' = edits + 1

CanEdit == pc = "idle" /\ edits < MaxEdits
Edited == pc' = "dirty" /\ edits' = edits + 1

\* part_000:147-150
handleIncomeChange(value) ==
    /\ CanEdit
    /\ annualIncome' = formatNumber(value)
    /\ Edited
    /\ UNCHANGED <<variant, epfAmount, socsoAmount, epf, socso, deductions, rebates,
                   results, pure>>

\* part_000:322-325
changeEpfAmount(value) ==
    /\ CanEdit
    /\ variant = "fixed"
    /\ epfAmount' = formatNumber(value)
    /\ Edited
    /\ UNCHANGED <<variant, annualIncome, socsoAmount, epf, socso, deductions, rebates,
                   results, pure>>

\* part_000:341-344
changeSocsoAmount(value) ==
    /\ CanEdit
    /\ variant = "fixed"
    /\ socsoAmount' = formatNumber(value)
    /\ Edited
    /\ UNCHANGED <<variant, annualIncome, epfAmount, epf, socso, deductions, rebates,
                   results, pure>>

\* App.tsx:210
setEpf(checked) ==
    /\ CanEdit
    /\ variant # "fixed"
    /\ epf' = checked
    /\ Edited
    /\ UNCHANGED <<variant, annualIncome, epfAmount, socsoAmount, socso, deductions,
                   rebates, results, pure>>

\* App.tsx:222
setSocso(checked) ==
    /\ CanEdit
    /\ variant # "fixed"
    /\ socso' = checked
    /\ Edited
    /\ UNCHANGED <<variant, annualIncome, epfAmount, socsoAmount, epf, deductions,
                   rebates, results, pure>>

\* mutant: the part of the request above the cap is stored
cappedValueExcess(numericValue, maxAmount) ==
    IF numericValue > maxAmount THEN numericValue - maxAmount ELSE numericValue

\* mutant: the requested amount is stored without the cap
cappedValueUncapped(numericValue, maxAmount) == numericValue

\* Math.min(numericValue, deduction.maxAmount), part_000:158
cappedValueOf(numericValue, maxAmount) == Min(numericValue, maxAmount)

\* mutant: the previous entries are not spread into the new record
PutAlone(rec, id, x) == [k \in {id} |-> x]

\* { ...prev, [id]: x }
Put(rec, id, x) == [k \in (DOMAIN rec) \cup {id} |-> IF k = id THEN x ELSE rec[k]]

\* part_000:152-166, App.tsx:124-138, part_000:576-590
handleDeductionChange(id, value) ==
    /\ CanEdit
    /\ LET di == FindDeduction(variant, id)
       IN  IF di = 0
           THEN UNCHANGED <<deductions, pc, edits>>
           ELSE LET numericValue == parseAmount(value)
                    cappedValue == cappedValueOf(numericValue,
                                                 Money(Catalogue(variant)[di].maxAmount))
                IN  /\ deductions' = Put(deductions, id, cappedValue)
                    /\ Edited
    /\ UNCHANGED <<variant, annualIncome, epfAmount, socsoAmount, epf, socso, rebates,
                   results, pure>>

\* part_000:168-178, App.tsx:140-150
handleRebateChange(id, value) ==
    /\ CanEdit
    /\ variant # "basic"
    /\ rebates' = Put(rebates, id, parseAmount(value))
    /\ Edited
    /\ UNCHANGED <<variant, annualIncome, epfAmount, socsoAmount, epf, socso, deductions,
                   results, pure>>

Next ==
    \/ Mount
    \/ RecomputeSummary
    \/ \E value \in IncomeTexts(variant) : handleIncomeChange(value)
    \/ \E value \in ContributionTexts : changeEpfAmount(value)
    \/ \E value \in ContributionTexts : changeSocsoAmount(value)
    \/ \E checked \in BOOLEAN : setEpf(checked)
    \/ \E checked \in BOOLEAN : setSocso(checked)
    \/ \E id \in DeductionIds, value \in DeductionTexts : handleDeductionChange(id, value)
    \/ \E id \in RebateIds, value \in RebateTexts : handleRebateChange(id, value)

Spec == Init /\ [][Next]_vars

-----------------------------------------------------------------------------
(* Tax sweep: the two calculateTax functions applied to pairs of incomes *)

\* upper bounds of the brackets of both tables, and 0
BracketBounds ==
    {0} \cup {taxBrackets[i].max : i \in 1..(Len(taxBrackets) - 1)}
        \cup {taxBracketsLoop[i].max : i \in 1..(Len(taxBracketsLoop) - 1)}

\* the sweep is taken around every bracket bound, around -1 (incomes below 0)
\* and around an income well inside the top bracket of both tables
SweepCentres == BracketBounds \cup {0 - 1, 2500000}

\* incomes (money units) from SweepRadius tenths below every centre to
\* SweepRadius tenths above the next whole ringgit
TaxSweep ==
    UNION {{Money(m) + k : k \in (0 - SweepRadius)..(10 + SweepRadius)} :
              m \in SweepCentres}

SweepMin == CHOOSE x \in TaxSweep : \A y \in TaxSweep : x <= y
SweepMax == CHOOSE x \in TaxSweep : \A y \in TaxSweep : x >= y

\* the next income of the sweep after x (x < SweepMax)
Succ(x) ==
    IF x + 1 \in TaxSweep THEN x + 1
    ELSE LET starts == {Money(m) - SweepRadius : m \in SweepCentres}
             later  == {y \in starts : y > x}
         IN  CHOOSE y \in later : \A z \in later : y <= z

TaxInit ==
    /\ variant = "fixed"
    /\ AppInit
    /\ incA = SweepMin
    /\ incB = SweepMin
    /\ taxA = calculateTax(SweepMin)
    /\ taxB = calculateTax(SweepMin)
    /\ loopA = calculateTaxLoop(SweepMin)
    /\ loopB = calculateTaxLoop(SweepMin)
    /\ walkA = calculateTaxLoopOn(taxBrackets, SweepMin)
    /\ amountsA = taxableAmountsOf(SweepMin)

StepA ==
    /\ incA < SweepMax
    /\ incA' = Succ(incA)
    /\ taxA' = calculateTax(incA')
    /\ loopA' = calculateTaxLoop(incA')
    /\ walkA' = calculateTaxLoopOn(taxBrackets, incA')
    /\ amountsA' = taxableAmountsOf(incA')
    /\ UNCHANGED <<variant, pc, inputs, results, edits, incB, taxB, loopB>>

StepB ==
    /\ incB < SweepMax
    /\ incB' = Succ(incB)
    /\ taxB' = calculateTax(incB')
    /\ loopB' = calculateTaxLoop(incB')
    /\ UNCHANGED <<variant, pc, inputs, results, edits, incA, taxA, loopA, walkA, amountsA>>

TaxNext == StepA \/ StepB

SpecTax == TaxInit /\ [][TaxNext]_vars

-----------------------------------------------------------------------------
(* Claims *)

\* the cap of relief id in the catalogue of the current variant, money units
MaxAmountOf(id) == Money(Catalogue(variant)[FindDeduction(variant, id)].maxAmount)

\* the parsed income of the current state, money units
IncomeNow == parseAmount(annualIncome)

\* the tax before rebates of the current state, tax units
TaxBeforeRebates == calculateTaxOf(variant, taxableIncome)

\* C1 (as claimed): the fixed-amount calculateTax is monotonically
\* non-decreasing over all taxable incomes >= 0, whole or not: a <= b implies
\* calculateTax(a) <= calculateTax(b).  Checked under SpecTax.
C1_Monotone == (0 <= incA /\ incA <= incB) => taxA <= taxB

\* C2 (as claimed): every stored deduction entry satisfies
\* 0 <= amount <= maxAmount of its definition, in every reachable state.
C2_EntriesInRange ==
    \A id \in DOMAIN deductions :
        0 <= deductions[id] /\ deductions[id] <= MaxAmountOf(id)

\* C3 (as claimed): after any sequence of edits the recomputed
\* totalDeductions, taxableIncome and taxAmount are all >= 0.
C3_ResultsNonNegative ==
    pc = "idle" => totalDeductions >= 0 /\ taxableIncome >= 0 /\ taxAmount >= 0

\* C4 (as claimed): for every bracket i but the last of the fixed-amount
\* variant, calculateTax(max_i + 1) = calculateTax(max_i) + rate_(i+1)/100 * 1:
\* the unit past the upper bound of bracket i is taxed at the rate of bracket
\* i+1.  Checked under SpecTax.
C4_BoundaryStep ==
    \A i \in 1..(Len(taxBrackets) - 1) :
        (incA = Money(taxBrackets[i].max) /\ incB = incA + Money(1))
            => taxB = taxA + Money(1) * taxBrackets[i + 1].rate

\* C5 (as claimed): the loop calculateTax of App.tsx (own table) and the
\* fixed-amount calculateTax of part_000 (own tables) return the same tax for
\* every whole taxable income of the sweep.  Checked under SpecTax.
C5_LoopEqualsFixed == incA % Money(1) = 0 => loopA = taxA

\* C6 (as claimed): after any sequence of handleRebateChange calls the final
\* taxAmount is a reduction of the computed tax:
\* 0 <= taxAmount <= calculateTax(taxableIncome).
C6_RebateReduces ==
    (pc = "idle" /\ variant # "basic")
        => 0 <= taxAmount /\ taxAmount <= TaxBeforeRebates

\* the inputs other than the income are as the session starts them
NoOtherEdits ==
    /\ deductions = defaultDeductions(variant)
    /\ rebates = initialRebates
    /\ epfAmount = <<>> /\ socsoAmount = <<>>
    /\ epf /\ socso

\* C7 (as claimed): with income 0 and no other user edits the recomputed
\* results are totalDeductions = 0, taxableIncome = 0, taxAmount = 0 and
\* effectiveRate = 0.
C7_StartAllZero ==
    (pc = "idle" /\ IncomeNow = 0 /\ NoOtherEdits)
        => /\ totalDeductions = 0
           /\ taxableIncome = 0
           /\ taxAmount = 0
           /\ effectiveRate = ZeroRate

\* C7 (amended): with income 0 and no other user edits the recomputed results
\* are totalDeductions = 9000 (the default personal relief), taxableIncome = 0,
\* taxAmount = 0 and effectiveRate = 0.
C7_StartDefaultRelief ==
    (pc = "idle" /\ IncomeNow = 0 /\ NoOtherEdits)
        => /\ totalDeductions = Money(9000)
           /\ taxableIncome = 0
           /\ taxAmount = 0
           /\ effectiveRate = ZeroRate

\* C7 witness: the session has started (mount and first recomputation done),
\* nothing was edited
C7_Witness == pc = "idle" /\ edits = 0 /\ IncomeNow = 0 /\ NoOtherEdits

\* no stored entry exceeds the cap of its definition
C8_NoEntryAboveCap ==
    \A id \in DOMAIN deductions : deductions[id] <= MaxAmountOf(id)

\* a handleDeductionChange step whose requested amount exceeds the cap stores
\* exactly the cap
C8_OverCapStoresCap ==
    \A id \in DeductionIds, value \in DeductionTexts :
        (/\ handleDeductionChange(id, value)
         /\ FindDeduction(variant, id) # 0
         /\ parseAmount(value) > MaxAmountOf(id))
            => deductions'[id] = MaxAmountOf(id)

\* C8: for every definition and every requested amount, the amount stored by
\* handleDeductionChange never exceeds maxAmount, and a requested amount above
\* maxAmount is stored as exactly maxAmount, after any sequence of edits.
C8_Capped == [](C8_NoEntryAboveCap) /\ [][C8_OverCapStoresCap]_vars

\* C8 witness: the lifestyle relief (cap 2500) holds exactly its cap, which
\* only a request above the cap (15000) produces
C8_Witness ==
    /\ "lifestyle" \in DOMAIN deductions
    /\ deductions["lifestyle"] = Money(2500)

\* sum of all rebate entries, tax units
TotalRebates == MoneyToTax(rebates["individual"] + rebates["spouse"] + rebates["zakat"])

\* C9: taxAmount = max(0, calculateTax(taxableIncome) - sum of all rebate
\* entries); whenever the rebates sum to more than the computed tax the final
\* taxAmount is exactly 0, never negative.
C9_RebateFloor ==
    (pc = "idle" /\ variant # "basic")
        => /\ taxAmount = Max(0, TaxBeforeRebates - TotalRebates)
           /\ (TotalRebates > TaxBeforeRebates => taxAmount = 0)

\* C9 witness: a positive computed tax, rebates summing to more
C9_Witness ==
    /\ pc = "idle" /\ variant # "basic"
    /\ TaxBeforeRebates > 0
    /\ TotalRebates > TaxBeforeRebates
    /\ taxAmount = 0

\* an entry of the deductions record, absent entries counting 0
EntryOrZero(id) == IF id \in DOMAIN deductions THEN deductions[id] ELSE 0

RECURSIVE SumEntries(_, _)
SumEntries(cat, i) ==
    IF i > Len(cat) THEN 0 ELSE EntryOrZero(cat[i].id) + SumEntries(cat, i + 1)

\* EPF and SOCSO contributions of the current state, money units
EpfNow == IF variant = "fixed" THEN parseAmount(epfAmount)
          ELSE IF epf THEN (IncomeNow * 11) \div 100 ELSE 0
SocsoNow == IF variant = "fixed" THEN parseAmount(socsoAmount)
            ELSE IF ~socso THEN 0
            ELSE IF IncomeNow <= Money(60000) THEN (IncomeNow * 5) \div 1000
            ELSE (IncomeNow * 6) \div 1000

\* C10: taxableIncome = max(0, income - totalDeductions) with totalDeductions
\* = EPF + SOCSO + sum of all deduction entries (absent entries counting 0);
\* whenever totalDeductions >= income, taxableIncome is 0 and so is the tax
\* before rebates.
C10_TaxableIncome ==
    pc = "idle"
        => /\ totalDeductions = EpfNow + SocsoNow + SumEntries(Catalogue(variant), 1)
           /\ taxableIncome = Max(0, IncomeNow - totalDeductions)
           /\ (totalDeductions >= IncomeNow
                  => taxableIncome = 0 /\ TaxBeforeRebates = 0)

\* C10 witness: a positive income not above the deductions
C10_Witness ==
    /\ pc = "idle"
    /\ IncomeNow > 0
    /\ totalDeductions >= IncomeNow
    /\ taxableIncome = 0

\* C11: in the fixed-amount variant, income 100,000, the default personal
\* relief 9,000, no other deduction, empty EPF/SOCSO and zero rebates give
\* taxableIncome = 91,000 and taxAmount = 3700 + (91000 - 70001) * 19/100
\* = 7689.81 (15,379,620 tax units of 1/2000).
C11_Scenario ==
    (variant = "fixed" /\ pc = "idle" /\ IncomeNow = Money(100000) /\ NoOtherEdits)
        => /\ taxableIncome = Money(91000)
           /\ taxAmount = Ringgit(3700) + Money(91000 - 70001) * Pct(19)
           /\ taxAmount = 15379620

\* C11 witness: the scenario has been entered and recomputed
C11_Witness ==
    /\ variant = "fixed" /\ pc = "idle"
    /\ IncomeNow = Money(100000) /\ NoOtherEdits
    /\ taxableIncome = Money(91000)

\* C12: once the recomputation has run, the four results are a function of
\* the current income, contributions, deduction entries and rebate entries
\* only, whatever the order and number of the edits that led there.
C12_ResultsOfSnapshot ==
    pc = "idle"
        => results = <<Summary.totalDeductions, Summary.taxableIncome,
                       Summary.taxAmount, Summary.effectiveRate>>

\* C12 witness: after two or more edits the inputs are again those of the
\* session start, and so are the results
C12_Witness ==
    /\ pc = "idle" /\ edits >= 2
    /\ IncomeNow = 0 /\ NoOtherEdits
    /\ totalDeductions = Money(9000) /\ taxAmount = 0

\* a bracket table as a sequence of [min, max]
BoundsOf(table) == [i \in 1..Len(table) |-> [min |-> table[i].min, max |-> table[i].max]]
RangeBounds == [i \in 1..Len(taxRanges) |->
                   [min |-> taxRanges[i].start, max |-> taxRanges[i].next]]

\* ascending, non-overlapping, starting at 0, one unbounded bracket, the last
WellOrdered(t) ==
    /\ t[1].min = 0
    /\ t[Len(t)].max = NULL
    /\ \A i \in 1..(Len(t) - 1) :
          t[i].max # NULL /\ t[i].min <= t[i].max /\ t[i].max < t[i + 1].min

\* some bracket of t contains the income x (money units)
Covered(t, x) ==
    \E i \in 1..Len(t) : x >= Money(t[i].min) /\ (t[i].max = NULL \/ x <= Money(t[i].max))

\* C13 (as claimed): each bracket table (taxBrackets of App.tsx, taxBrackets
\* and taxRanges of part_000) is ascending, non-overlapping, starts at 0, has
\* one unbounded bracket, the last, and covers [0, infinity): no taxable
\* income >= 0, whole or not, lies outside every bracket.  Under SpecTax.
C13_TablesCover ==
    /\ WellOrdered(BoundsOf(taxBrackets))
    /\ WellOrdered(BoundsOf(taxBracketsLoop))
    /\ WellOrdered(RangeBounds)
    /\ incA >= 0 => /\ Covered(BoundsOf(taxBrackets), incA)
                    /\ Covered(BoundsOf(taxBracketsLoop), incA)
                    /\ Covered(RangeBounds, incA)

C15_FailFast ==
    (incA > 0 /\ (rangeIndexOf(incA) = 0 \/ bracketIndexOf(incA) = 0))
        => calculateTaxOutcome(incA).kind # "return"

\* C16: calculateTax(x) = 0 for every x <= 0, in the fixed-amount and in the
\* loop implementation.  Under SpecTax.
C16_ZeroAtOrBelowZero == incA <= 0 => taxA = 0 /\ loopA = 0

\* C16 witness: an income below 0 and the income 0 have been swept
C16_Witness == incA = 0 /\ incB = Money(0 - 1) /\ taxA = 0 /\ taxB = 0

\* C17 (as claimed): in the loop calculateTax, for every income >= 0 and every
\* bracket whose lower bound is <= the income, the amount taxed at the rate of
\* the bracket is min(income, max) - min + 1, and income - min + 1 for the
\* last bracket.  Under SpecTax.
C17_AmountInBracket ==
    incA >= 0 =>
        \A i \in 1..Len(taxBracketsLoop) :
            Money(taxBracketsLoop[i].min) <= incA
                => amountsA[i] =
                      (IF taxBracketsLoop[i].max # NULL
                       THEN Min(incA, Money(taxBracketsLoop[i].max))
                       ELSE incA) - Money(taxBracketsLoop[i].min) + Money(1)

\* C18: on the table of the fixed-amount variant the loop algorithm and the
\* fixed-amount lookup return the same tax for every whole income >= 0.
\* Under SpecTax.
C18_WalkEqualsLookup == (incA >= 0 /\ incA % Money(1) = 0) => walkA = taxA

\* C18 witness: a whole income inside the top bracket
C18_Witness == incA = Money(2500000) /\ taxA > Ringgit(528400) /\ walkA = taxA

\* C19: in the fixed-amount variant the two tables have the same bounds and,
\* for every whole income >= 0, both searches succeed on the same index; an
\* income on an upper bound selects the lower bracket, every income >=
\* 2000001 the last one.  Under SpecTax.
C19_SearchesAgree ==
    /\ Len(taxRanges) = Len(taxBrackets)
    /\ \A i \in 1..Len(taxRanges) :
          taxRanges[i].start = taxBrackets[i].min /\ taxRanges[i].next = taxBrackets[i].max
    /\ (incA >= 0 /\ incA % Money(1) = 0)
          => /\ rangeIndexOf(incA) # 0
             /\ bracketIndexOf(incA) = rangeIndexOf(incA)
             /\ \A i \in 1..(Len(taxBrackets) - 1) :
                   incA = Money(taxBrackets[i].max) => rangeIndexOf(incA) = i
             /\ incA >= Money(2000001) => rangeIndexOf(incA) = Len(taxRanges)

\* C19 witness: the income on the upper bound of the ninth bracket
C19_Witness == incA = Money(2000000) /\ bracketIndexOf(incA) = 9

\* tax of all the brackets below bracket i taken in full, tax units
RECURSIVE CumulativeTax(_)
CumulativeTax(i) ==
    IF i <= 1 THEN 0
    ELSE CumulativeTax(i - 1)
         + Money(taxBrackets[i - 1].max - taxBrackets[i - 1].min + 1) * taxBrackets[i - 1].rate

\* C20: every fixedAmount of taxRanges is the tax of all lower brackets:
\* fixedAmount[i] = sum over j < i of (max_j - min_j + 1) * rate_j / 100, with
\* fixedAmount[1] = 0; stated for the range the swept income selects.
\* Under SpecTax.
C20_FixedAmounts ==
    /\ taxRanges[1].fixedAmount = 0
    /\ \A i \in 1..Len(taxRanges) :
          rangeIndexOf(incA) = i => Ringgit(taxRanges[i].fixedAmount) = CumulativeTax(i)

\* C20 witness: the swept income selects the last range
C20_Witness == rangeIndexOf(incA) = Len(taxRanges) /\ taxA >= Ringgit(528400)

\* the normalization of free-form text: every character that is not a digit
\* or a decimal point is stripped, the rest is parsed, 0 on empty or invalid
NormalizedValue(value) ==
    OrZero(parseFloat(SelectSeq(value, LAMBDA c : IsDigit(c) \/ c = ".")))

\* a step of a change handler stores the normalized value of its text
C21_StoredIsNormalized ==
    /\ \A id \in DeductionIds, value \in DeductionTexts :
          (handleDeductionChange(id, value) /\ FindDeduction(variant, id) # 0)
              => deductions'[id] = cappedValueOf(NormalizedValue(value), MaxAmountOf(id))
    /\ \A id \in RebateIds, value \in RebateTexts :
          handleRebateChange(id, value) => rebates'[id] = NormalizedValue(value)
    /\ \A value \in IncomeTexts(variant) :
          handleIncomeChange(value) => parseAmount(annualIncome') = NormalizedValue(value)

\* C21 (as claimed): for every text handed to handleDeductionChange or
\* handleRebateChange the value stored (the deduction before its cap) is the
\* text stripped of every character that is not a digit or a decimal point and
\* then parsed, 0 on empty or invalid text: the normalization the income text
\* receives.
C21_Normalization == [][C21_StoredIsNormalized]_vars

\* EPF plus SOCSO as contained in the recomputed totalDeductions, money units
ContributionsNow == totalDeductions - SumEntries(Catalogue(variant), 1)

\* rate of the contributions in tenths of a percent, by the flags and the
\* monthly income (annual income / 12 against 5000)
ContributionPerMille ==
    (IF epf THEN 110 ELSE 0)
    + (IF ~socso THEN 0 ELSE IF IncomeNow <= 12 * Money(5000) THEN 5 ELSE 6)

\* C22: in the toggle variant EPF is 11% of the annual income when its flag
\* is on and 0 when off; SOCSO is 0 when its flag is off, 0.5% of the annual
\* income when income / 12 <= 5000 and 0.6% otherwise; the contributions
\* depend on nothing else.  (The incomes entered are whole multiples of 10
\* ringgit, the products are taken on income / 100 to stay exact.)
C22_Contributions ==
    (variant = "toggle" /\ pc = "idle")
        => /\ IncomeNow % 100 = 0
           /\ 10 * ContributionsNow = (IncomeNow \div 100) * ContributionPerMille

\* C22 witness: both flags on, a monthly income of exactly 5000 (lower tier):
\* 6600 + 300
C22_Witness ==
    /\ variant = "toggle" /\ pc = "idle"
    /\ epf /\ socso
    /\ IncomeNow = Money(60000)
    /\ ContributionsNow = Money(6900)

\* the summary of the current state with the income text replaced by the text
\* handleIncomeChange stores for value
SummaryAtIncome(value) ==
    computeSummary(variant, formatNumber(value), epfAmount, socsoAmount, epf, socso,
                   deductions, rebates)

\* C23 (as claimed): in the toggle variant with the EPF and SOCSO flags on
\* and the deduction and rebate entries held fixed, taxableIncome and
\* taxAmount are monotonically non-decreasing in the annual income: no higher
\* income gives a lower taxable income or a lower tax payable.
C23_SummaryMonotone ==
    (variant = "toggle" /\ pc = "idle" /\ epf /\ socso)
        => \A value \in IncomeTexts(variant) :
              parseAmount(formatNumber(value)) >= IncomeNow
                  => /\ SummaryAtIncome(value).taxableIncome >= taxableIncome
                     /\ SummaryAtIncome(value).taxAmount >= taxAmount

\* sum of the first n elements of a sequence of numbers
RECURSIVE PrefixSum(_, _)
PrefixSum(seq, n) == IF n = 0 THEN 0 ELSE PrefixSum(seq, n - 1) + seq[n]

\* tax of the amounts allocated to the first n brackets of the loop table
RECURSIVE TaxOfAmounts(_, _)
TaxOfAmounts(amounts, n) ==
    IF n = 0 THEN 0
    ELSE TaxOfAmounts(amounts, n - 1) + amounts[n] * taxBracketsLoop[n].rate

\* C24: in the loop calculateTax, after every iteration the income allocated
\* to brackets so far plus remainingIncome is the input income; for every
\* income >= 0 remainingIncome stays >= 0 and is 0 when the one pass over
\* the table ends, so the allocated amounts add up to the income and the tax
\* is the sum of each amount at the rate of its bracket.  Under SpecTax.
C24_LoopAllocation ==
    LET n == Len(taxBracketsLoop)
        remaining == remainingIncomesOf(incA)
    IN  /\ Len(amountsA) = n /\ Len(remaining) = n
        /\ \A i \in 1..n : PrefixSum(amountsA, i) + remaining[i] = incA
        /\ incA >= 0
              => /\ \A i \in 1..n : remaining[i] >= 0 /\ amountsA[i] >= 0
                 /\ remaining[n] = 0
                 /\ PrefixSum(amountsA, n) = incA
                 /\ loopA = TaxOfAmounts(amountsA, n)

\* C24 witness: an income that reaches the last, unbounded bracket of the
\* loop table and is allocated completely
C24_Witness ==
    /\ incA = Money(2500000)
    /\ amountsA[Len(taxBracketsLoop)] = Money(2500000 - 1000001)
    /\ remainingIncomesOf(incA)[Len(taxBracketsLoop)] = 0

\* the rate of the last bracket of the table of a variant, half percents
TopRateOf(v) ==
    IF v = "fixed" THEN taxBrackets[Len(taxBrackets)].rate
    ELSE taxBracketsLoop[Len(taxBracketsLoop)].rate

\* no contribution, deduction entry or rebate entry of the state is negative
NothingNegative ==
    /\ EpfNow >= 0 /\ SocsoNow >= 0
    /\ \A id \in DOMAIN deductions : deductions[id] >= 0
    /\ \A id \in DOMAIN rebates : rebates[id] >= 0

\* C25: whenever income > 0 and no contribution, deduction entry or rebate
\* entry is negative, taxAmount <= income * (top marginal rate) / 100, so
\* effectiveRate (= taxAmount / income * 100) lies between 0 and the top rate
\* of the table, 30 in the fixed-amount variant and 28 in the loop variants,
\* and never exceeds 100.
C25_EffectiveRateBound ==
    /\ TopRateOf("fixed") = Pct(30) /\ TopRateOf("toggle") = Pct(28)
    /\ TopRateOf(variant) <= Pct(100)
    /\ (pc = "idle" /\ IncomeNow > 0 /\ NothingNegative)
          => /\ 0 <= taxAmount /\ taxAmount <= IncomeNow * TopRateOf(variant)
             /\ effectiveRate.den = IncomeNow * 2
             /\ 0 <= effectiveRate.num
             /\ effectiveRate.num <= (effectiveRate.den \div 2) * TopRateOf(variant)

\* C25 witness: a positive tax on a positive income with a deduction and a
\* rebate claimed, none negative
C25_Witness ==
    /\ pc = "idle" /\ IncomeNow > 0 /\ NothingNegative
    /\ "lifestyle" \in DOMAIN deductions /\ deductions["lifestyle"] > 0
    /\ rebates["zakat"] > 0
    /\ taxAmount > 0

\* between rec and recNext no entry but that of id was changed, added or
\* removed
OnlyEntryChanged(rec, recNext, id) ==
    /\ DOMAIN recNext \subseteq (DOMAIN rec) \cup {id}
    /\ \A k \in (DOMAIN rec) \ {id} : k \in DOMAIN recNext /\ recNext[k] = rec[k]

\* a handleDeductionChange step changes the deduction entry of id only, and
\* nothing at all when id names no definition
C26_DeductionFrame ==
    \A id \in DeductionIds, value \in DeductionTexts :
        handleDeductionChange(id, value)
            => /\ OnlyEntryChanged(deductions, deductions', id)
               /\ UNCHANGED <<rebates, annualIncome, epfAmount, socsoAmount, epf, socso>>
               /\ FindDeduction(variant, id) = 0 => UNCHANGED vars

\* a handleRebateChange step changes the rebate entry of id only
C26_RebateFrame ==
    \A id \in RebateIds, value \in RebateTexts :
        handleRebateChange(id, value)
            => /\ OnlyEntryChanged(rebates, rebates', id)
               /\ UNCHANGED <<deductions, annualIncome, epfAmount, socsoAmount, epf, socso>>

\* C26: handleDeductionChange(id, value) changes only the deduction entry of
\* id: the other deduction entries, the rebate entries and the income input
\* are unchanged, and the whole state is unchanged when id names no
\* definition of availableDeductions; handleRebateChange(id, value) changes
\* only the rebate entry of id.
C26_Frame == [][C26_DeductionFrame /\ C26_RebateFrame]_vars

\* C26 witness: after an income, a rebate and a deduction edit, the entries
\* and the income the later edits did not name are still in place
C26_Witness ==
    /\ IncomeNow = Money(100000)
    /\ rebates["zakat"] = Money(400) /\ rebates["spouse"] = 0 /\ rebates["individual"] = 0
    /\ DOMAIN deductions = {"personal", "lifestyle"}
    /\ deductions["personal"] = Money(9000)
    /\ deductions["lifestyle"] = Money(1500)

\* the income x (money units) is a whole number of ringgit, not negative
WholeIncome(x) == x >= 0 /\ x % Money(1) = 0

\* C27: on whole taxable incomes >= 0 the fixed-amount calculateTax and the
\* loop calculateTax, each on its own table, are monotonically non-decreasing
\* and at most income * (top rate) / 100; in particular the fixed-amount tax
\* does not drop from the upper bound of a bracket to the lower bound of the
\* next.  Under SpecTax.
C27_WholeIncomeMonotone ==
    /\ (WholeIncome(incA) /\ WholeIncome(incB) /\ incA <= incB)
          => taxA <= taxB /\ loopA <= loopB
    /\ WholeIncome(incA)
          => /\ 0 <= taxA /\ taxA <= incA * TopRateOf("fixed")
             /\ 0 <= loopA /\ loopA <= incA * TopRateOf("toggle")
    /\ \A i \in 1..(Len(taxBrackets) - 1) :
          (incA = Money(taxBrackets[i].max) /\ incB = Money(taxBrackets[i + 1].min))
              => taxA <= taxB

\* C27 witness: the pair of incomes on the two sides of the bound 20000 /
\* 20001, with a positive tax below the bound
C27_Witness ==
    /\ incA = Money(20000) /\ incB = Money(20001)
    /\ 0 < taxA /\ taxA <= taxB
    /\ 0 < loopA /\ loopA <= loopB

====
